---------------------------- MODULE Spec2Model ----------------------------
(***************************************************************************)
(* Model of pyglottolog/monsterlib/_bibtex_escaping.py: the legacy         *)
(* "?[\uDEC]" ASCII-escape codec (u_escape / u_unescape), the decode       *)
(* pre-processor (ulatex_preprocess) and the decode post-processor         *)
(* (ulatex_postprocess with its regular-expression passes).                *)
(*                                                                         *)
(* A text is a sequence of code points (a Python 2 unicode object on a     *)
(* wide build, sys.maxunicode = 1114111); a byte string is a sequence of   *)
(* numbers in 0..255.  ord and unichr are therefore the identity on a      *)
(* code point, unichr with its range check.  Code points used below:       *)
(*   9 TAB  32 SPACE  35 #  38 &  48..57 0..9  59 ;  63 ?  91 [  92 \      *)
(*   93 ]  101 e  117 u  120 x  123 {  125 }                               *)
(*   233 e-acute  234 e-circumflex  769 COMBINING ACUTE ACCENT             *)
(*   770 COMBINING CIRCUMFLEX ACCENT  803 COMBINING DOT BELOW              *)
(*   7865 e-dot-below  7871 e-circumflex-acute  7879 e-circumflex-dot-below*)
(*   128512 U+1F600 (a six-digit code point)                               *)
(***************************************************************************)
EXTENDS Integers, Sequences, FiniteSets, TLC

VARIABLES pc, fam, toks, input, escaped, unescaped, pre, post

vars == <<pc, fam, toks, input, escaped, unescaped, pre, post>>

(***************************************************************************)
(* Generic string helpers (Python str / re primitives).                    *)
(***************************************************************************)

\* s[i-1:i-1+len(lit)] == lit  (1-based i)
HasAt(s, i, lit) ==
    /\ i >= 1
    /\ i + Len(lit) - 1 <= Len(s)
    /\ \A k \in 1..Len(lit) : s[i + k - 1] = lit[k]

\* [0-9] and \d without re.UNICODE
Digits == 48..57

\* \s without re.UNICODE: [ \t\n\r\f\v]
Whitespace == {9, 10, 11, 12, 13, 32}

\* end (exclusive) of the maximal run of characters of the class C from i on:
\* what a greedy X* consumes when nothing after it forces backtracking
RunEnd(s, i, C) ==
    CHOOSE j \in i..(Len(s) + 1) :
        /\ (j = Len(s) + 1 \/ s[j] \notin C)
        /\ \A k \in i..(j - 1) : s[k] \in C

\* the same for a negated class [^C]
RunEndNot(s, i, C) ==
    CHOOSE j \in i..(Len(s) + 1) :
        /\ (j = Len(s) + 1 \/ s[j] \in C)
        /\ \A k \in i..(j - 1) : s[k] \notin C

\* pattern.sub(repl, s): leftmost, non-overlapping matches, one pass.
\* ends[i] is the end (exclusive) of the pattern's match starting at position
\* i of s, 0 if there is none; repl[i] is what that match is replaced by.
Sub(s, ends, repl) ==
    LET f[i \in 1..(Len(s) + 1)] ==
            IF i > Len(s) THEN <<>>
            ELSE IF ends[i] > i THEN repl[i] \o f[ends[i]]
                 ELSE <<s[i]>> \o f[i + 1]
    IN  f[1]

\* pattern.finditer(s): the spans <<start, end>> (end exclusive) of the matches
Finditer(s, ends) ==
    LET f[i \in 1..(Len(s) + 1)] ==
            IF i > Len(s) THEN <<>>
            ELSE IF ends[i] > i THEN <<<<i, ends[i]>>>> \o f[ends[i]]
                 ELSE f[i + 1]
    IN  f[1]

\* s.replace(old, new) for a non-empty old: leftmost, non-overlapping
Replace(s, old, new) ==
    Sub(s, [i \in 1..Len(s) |-> IF HasAt(s, i, old) THEN i + Len(old) ELSE 0],
           [i \in 1..Len(s) |-> new])

\* '%d' % o
RECURSIVE DecStr(_)
DecStr(n) ==
    IF n < 10 THEN <<48 + n>>
    ELSE DecStr(n \div 10) \o <<48 + (n % 10)>>

\* int(digits)
RECURSIVE IntOf(_)
IntOf(ds) ==
    IF ds = <<>> THEN 0
    ELSE IntOf(SubSeq(ds, 1, Len(ds) - 1)) * 10 + (ds[Len(ds)] - 48)

\* sys.maxunicode of a wide (UCS-4) build: unichr(n) raises ValueError above it
MaxUnicode == 1114111

unichrRaises(n) == n > MaxUnicode

unichr(n) == n

RECURSIVE Join(_)
Join(chunks) ==
    IF chunks = <<>> THEN <<>> ELSE Head(chunks) \o Join(Tail(chunks))

(***************************************************************************)
(* unicodedata, restricted to the code points the model's inputs use.      *)
(* Every other code point of the model (ASCII, U+1F600) is a starter with  *)
(* no decomposition and no composition.                                    *)
(***************************************************************************)

\* unicodedata.combining(c): the canonical combining class
CCC(c) ==
    CASE c = 769 -> 230
      [] c = 770 -> 230
      [] c = 803 -> 220
      [] OTHER -> 0

\* unicodedata.decomposition(c): the canonical decomposition, one step
Decomp(c) ==
    CASE c = 233  -> <<101, 769>>
      [] c = 234  -> <<101, 770>>
      [] c = 7865 -> <<101, 803>>
      [] c = 7871 -> <<234, 769>>
      [] c = 7879 -> <<7865, 770>>
      [] OTHER -> <<c>>

Composites == {233, 234, 7865, 7871, 7879}

\* the primary composite of a pair, 0 if there is none
Composite(a, b) ==
    IF \E c \in Composites : Decomp(c) = <<a, b>>
    THEN CHOOSE c \in Composites : Decomp(c) = <<a, b>>
    ELSE 0

RECURSIVE FullDecomp(_)
FullDecomp(s) ==
    IF s = <<>> THEN <<>>
    ELSE LET d == Decomp(Head(s))
         IN  IF d = <<Head(s)>> THEN d \o FullDecomp(Tail(s))
             ELSE FullDecomp(d) \o FullDecomp(Tail(s))

\* canonical ordering: exchange adjacent marks until classes are non-decreasing
RECURSIVE CanonOrder(_)
CanonOrder(s) ==
    IF \E i \in 1..(Len(s) - 1) : CCC(s[i]) > CCC(s[i + 1]) /\ CCC(s[i + 1]) > 0
    THEN LET i == CHOOSE i \in 1..(Len(s) - 1) :
                      CCC(s[i]) > CCC(s[i + 1]) /\ CCC(s[i + 1]) > 0
         IN  CanonOrder([s EXCEPT ![i] = s[i + 1], ![i + 1] = s[i]])
    ELSE s

\* canonical composition: out is the text built so far, sp the position in
\* out of the last starter (0: none), lcc the class of the last mark kept
\* after it (-1: none, nothing blocks)
RECURSIVE ComposeFrom(_, _, _, _, _)
ComposeFrom(d, i, out, sp, lcc) ==
    IF i > Len(d) THEN out
    ELSE LET ch == d[i]
             cc == CCC(ch)
             co == IF sp > 0 /\ lcc < cc THEN Composite(out[sp], ch) ELSE 0
         IN  IF co # 0
             THEN ComposeFrom(d, i + 1, [out EXCEPT ![sp] = co], sp, lcc)
             ELSE IF cc = 0
                  THEN ComposeFrom(d, i + 1, Append(out, ch), Len(out) + 1, -1)
                  ELSE ComposeFrom(d, i + 1, Append(out, ch), sp, cc)

\* unicodedata.normalize('NFC', s)
NFC(s) == ComposeFrom(CanonOrder(FullDecomp(s)), 1, <<>>, 0, -1)

\* unicodedata.name(c).startswith('COMBINING'); a character without a name
\* (ValueError) is not combining
is_combining(c) == c \in {769, 770, 803}

(***************************************************************************)
(* Legacy ASCII-escape codec.                                              *)
(***************************************************************************)

\* mutant of EscapeChunk: the Latin-1 range is kept raw (o <= 255)
EscapeChunkLatin1(c) ==
    IF c <= 255 THEN <<c>>
    ELSE <<63, 91, 92, 117>> \o DecStr(c) \o <<93>>

\* one chunk of iterchunks: c itself, or r'?[\u%d]' % ord(c)
EscapeChunk(c) ==
    IF c <= 127 THEN <<c>>
    ELSE <<63, 91, 92, 117>> \o DecStr(c) \o <<93>>

RECURSIVE u_escape(_)
u_escape(s) ==
    IF s = <<>> THEN <<>>
    ELSE EscapeChunk(Head(s)) \o u_escape(Tail(s))

\* re.compile(r'\?\[\\u(\d{3,5})\]').match at i: the digit run is taken
\* greedily, and ']' must follow three to five digits
UnescapeMatchEnd(s, i) ==
    IF s[i] = 63 /\ HasAt(s, i, <<63, 91, 92, 117>>)
    THEN LET d == i + 4
             e == RunEnd(s, d, Digits)
         IN  IF e - d \in 3..5 /\ e <= Len(s) /\ s[e] = 93 THEN e + 1 ELSE 0
    ELSE 0

\* yield unichr(int(m.group(1)))
UnescapeRepl(s, i, e) == <<unichr(IntOf(SubSeq(s, i + 4, e - 2)))>>

\* the chunks between the matches and the decoded matches, joined
u_unescape(s) ==
    LET ms == Finditer(s, [i \in 1..Len(s) |-> UnescapeMatchEnd(s, i)])
        chunk[k \in 1..(Len(ms) + 1)] ==
            LET pos == IF k = 1 THEN 1 ELSE ms[k - 1][2]
            IN  IF k > Len(ms) THEN SubSeq(s, pos, Len(s))
                ELSE SubSeq(s, pos, ms[k][1] - 1)
                         \o UnescapeRepl(s, ms[k][1], ms[k][2])
    IN  Join([k \in 1..(Len(ms) + 1) |-> chunk[k]])

(***************************************************************************)
(* ulatex_preprocess.                                                      *)
(***************************************************************************)

\* text.encode('utf8'): how a caller obtains the byte string it passes in
Utf8Encode1(c) ==
    IF c < 128 THEN <<c>>
    ELSE IF c < 2048 THEN <<192 + (c \div 64), 128 + (c % 64)>>
    ELSE IF c < 65536
         THEN <<224 + (c \div 4096), 128 + ((c \div 64) % 64), 128 + (c % 64)>>
         ELSE <<240 + (c \div 262144), 128 + ((c \div 4096) % 64),
                128 + ((c \div 64) % 64), 128 + (c % 64)>>

RECURSIVE Utf8Encode(_)
Utf8Encode(s) ==
    IF s = <<>> THEN <<>> ELSE Utf8Encode1(Head(s)) \o Utf8Encode(Tail(s))

\* text.encode('latin-1'), for a text within its range
Latin1Encode(s) == s

IsCont(b) == b \in 128..191

\* s.decode('utf8'): err is UnicodeDecodeError (a stray or missing
\* continuation byte, an overlong form, a lead byte out of range)
RECURSIVE Utf8DecodeFrom(_, _, _)
Utf8DecodeFrom(b, i, out) ==
    IF i > Len(b) THEN [err |-> FALSE, val |-> out]
    ELSE LET b1 == b[i]
             has(n) == i + n <= Len(b) /\ \A k \in 1..n : IsCont(b[i + k])
             bad == [err |-> TRUE, val |-> <<>>]
         IN  IF b1 < 128 THEN Utf8DecodeFrom(b, i + 1, Append(out, b1))
             ELSE IF b1 \in 194..223
             THEN IF has(1)
                  THEN Utf8DecodeFrom(b, i + 2,
                           Append(out, (b1 - 192) * 64 + (b[i + 1] - 128)))
                  ELSE bad
             ELSE IF b1 \in 224..239
             THEN IF has(2) /\ (b1 = 224 => b[i + 1] >= 160)
                  THEN Utf8DecodeFrom(b, i + 3,
                           Append(out, (b1 - 224) * 4096 + (b[i + 1] - 128) * 64
                                       + (b[i + 2] - 128)))
                  ELSE bad
             ELSE IF b1 \in 240..244
             THEN IF /\ has(3)
                     /\ (b1 = 240 => b[i + 1] >= 144)
                     /\ (b1 = 244 => b[i + 1] <= 143)
                  THEN Utf8DecodeFrom(b, i + 4,
                           Append(out, (b1 - 240) * 262144 + (b[i + 1] - 128) * 4096
                                       + (b[i + 2] - 128) * 64 + (b[i + 3] - 128)))
                  ELSE bad
             ELSE bad

Utf8Decode(b) == Utf8DecodeFrom(b, 1, <<>>)

\* mutant of HasCombining: only the first character is looked at
HasCombiningFirst(s) == s # <<>> /\ is_combining(s[1])

\* for c in s: if is_combining(c): raise ValueError
HasCombining(s) == \E i \in 1..Len(s) : is_combining(s[i])

\* ulatex_preprocess(b): exc is the exception raised ("none": returns val)
ulatex_preprocess(b) ==
    LET d == Utf8Decode(b)
    IN  IF d.err THEN [exc |-> "UnicodeDecodeError", val |-> <<>>]
        ELSE LET s == NFC(d.val)
             IN  IF HasCombining(s) THEN [exc |-> "ValueError", val |-> <<>>]
                 ELSE [exc |-> "none", val |-> s]

(***************************************************************************)
(* ulatex_postprocess and its patterns.                                    *)
(***************************************************************************)

\* the characters excluded by the class [^\}]
RBrace == {125}

\* the names of command_patterns, in order: url, emph, textit, texttt
CommandNames ==
    << <<117, 114, 108>>, <<101, 109, 112, 104>>,
       <<116, 101, 120, 116, 105, 116>>, <<116, 101, 120, 116, 116, 116>> >>

\* mutant of CommandHead: no space between the name and the brace
CommandHeadNoSpace(name) == <<92>> \o name \o <<123>>

\* the literal head of re.compile('\\\\%s \{(?P<arg>[^\}]+)\}' % name):
\* backslash, name, ONE SPACE, opening brace
CommandHead(name) == <<92>> \o name \o <<32, 123>>

\* match of command pattern `name` at i: the head, one or more non-'}'
\* characters (greedy, so up to the first '}'), then '}'
CommandMatchEnd(name, s, i) ==
    IF s[i] = 92 /\ HasAt(s, i, CommandHead(name))
    THEN LET a == i + Len(CommandHead(name))
             e == RunEndNot(s, a, RBrace)
         IN  IF e > a /\ e <= Len(s) THEN e + 1 ELSE 0
    ELSE 0

\* m.group('arg') of a match <<i, e>> of command pattern `name`
CommandArg(name, s, i, e) == SubSeq(s, i + Len(CommandHead(name)), e - 2)

\* p.sub(lambda m: m.group('arg'), s)
CommandSub(name, s) ==
    LET ends == [i \in 1..Len(s) |-> CommandMatchEnd(name, s, i)]
    IN  Sub(s, ends, [i \in 1..Len(s) |-> CommandArg(name, s, i, ends[i])])

\* for p in command_patterns: s = p.sub(...)
StripCommands(s) ==
    CommandSub(CommandNames[4],
        CommandSub(CommandNames[3],
            CommandSub(CommandNames[2], CommandSub(CommandNames[1], s))))

\* debracket = re.compile(u"\{([^\}]+)\}")
DebracketMatchEnd(s, i) ==
    IF s[i] = 123
    THEN LET e == RunEndNot(s, i + 1, RBrace)
         IN  IF e > i + 1 /\ e <= Len(s) THEN e + 1 ELSE 0
    ELSE 0

\* \1 of a match <<i, e>> of debracket
DebracketGroup(s, i, e) == SubSeq(s, i + 1, e - 2)

\* debracket.sub(u"\\1", s)
Debracket(s) ==
    LET ends == [i \in 1..Len(s) |-> DebracketMatchEnd(s, i)]
    IN  Sub(s, ends, [i \in 1..Len(s) |-> DebracketGroup(s, i, ends[i])])

\* s.replace('{}', '')
DropEmptyGroups(s) == Replace(s, <<123, 125>>, <<>>)

\* debracket.sub(u"\\1", debracket.sub(u"\\1", s.replace('{}', '')))
RemoveBraces(s) == Debracket(Debracket(DropEmptyGroups(s)))

\* mutant of Drain: the marks are taken from the front (comb.pop(0))
DrainFifo(n, comb) == n \o comb

\* while comb: n.append(comb.pop())
RECURSIVE Drain(_, _)
Drain(n, comb) ==
    IF comb = <<>> THEN n
    ELSE Drain(Append(n, comb[Len(comb)]), SubSeq(comb, 1, Len(comb) - 1))

\* the loop over s with the lists n and comb; what is left in comb when the
\* loop ends is not used
RECURSIVE ReorderFrom(_, _, _, _)
ReorderFrom(s, i, n, comb) ==
    IF i > Len(s) THEN n
    ELSE IF is_combining(s[i])
         THEN ReorderFrom(s, i + 1, n, Append(comb, s[i]))
         ELSE ReorderFrom(s, i + 1, Drain(Append(n, s[i]), comb), <<>>)

\* n = []; comb = []; for c in s: ...; s = u''.join(n)
Reorder(s) == ReorderFrom(s, 1, <<>>, <<>>)

\* mutant of AmpStart: the pattern has no optional backslash
AmpStartNoBackslash(s, i) == i

\* numcharref_patterns[0] = '\\\\?&#(?P<dec>[0-9]+);' at i.  With a backslash
\* at i the optional '\\' takes it; giving it back leaves '&' to match the
\* backslash, which fails.
AmpStart(s, i) == IF s[i] = 92 THEN i + 1 ELSE i

AmpMatchEnd(s, i) ==
    IF s[i] \in {38, 92}
    THEN LET j == AmpStart(s, i)
         IN  IF HasAt(s, j, <<38, 35>>)
             THEN LET e == RunEnd(s, j + 2, Digits)
                  IN  IF e > j + 2 /\ e <= Len(s) /\ s[e] = 59 THEN e + 1 ELSE 0
             ELSE 0
    ELSE 0

\* m.group('dec') of a match <<i, e>> of numcharref_patterns[0]
AmpDec(s, i, e) == SubSeq(s, AmpStart(s, i) + 2, e - 2)

\* numcharref_patterns[1] = '\?\[\\\\u\s*(?P<dec>[0-9]+)\]' at i
QuMatchEnd(s, i) ==
    IF s[i] = 63 /\ HasAt(s, i, <<63, 91, 92, 117>>)
    THEN LET w == RunEnd(s, i + 4, Whitespace)
             e == RunEnd(s, w, Digits)
         IN  IF e > w /\ e <= Len(s) /\ s[e] = 93 THEN e + 1 ELSE 0
    ELSE 0

\* m.group('dec') of a match <<i, e>> of numcharref_patterns[1]
QuDec(s, i, e) == SubSeq(s, RunEnd(s, i + 4, Whitespace), e - 2)

\* numcharref_repl(m) = unichr(int(m.group('dec')))
numcharref_repl(dec) == <<unichr(IntOf(dec))>>

numcharref_replRaises(dec) == unichrRaises(IntOf(dec))

\* numcharref_repl(m) for a match <<i, e>> of either pattern
AmpRepl(s, i, e) == numcharref_repl(AmpDec(s, i, e))

QuRepl(s, i, e) == numcharref_repl(QuDec(s, i, e))

\* p.sub(numcharref_repl, s) for the first pattern: the ValueError of unichr
\* propagates out of sub
AmpSub(s) ==
    LET ends == [i \in 1..Len(s) |-> AmpMatchEnd(s, i)]
        ms == Finditer(s, ends)
    IN  IF \E k \in 1..Len(ms) :
               numcharref_replRaises(AmpDec(s, ms[k][1], ms[k][2]))
        THEN [exc |-> "ValueError", val |-> <<>>]
        ELSE [exc |-> "none",
              val |-> Sub(s, ends, [i \in 1..Len(s) |-> AmpRepl(s, i, ends[i])])]

\* p.sub(numcharref_repl, s) for the second pattern
QuSub(s) ==
    LET ends == [i \in 1..Len(s) |-> QuMatchEnd(s, i)]
        ms == Finditer(s, ends)
    IN  IF \E k \in 1..Len(ms) :
               numcharref_replRaises(QuDec(s, ms[k][1], ms[k][2]))
        THEN [exc |-> "ValueError", val |-> <<>>]
        ELSE [exc |-> "none",
              val |-> Sub(s, ends, [i \in 1..Len(s) |-> QuRepl(s, i, ends[i])])]

\* for p in numcharref_patterns: s = p.sub(numcharref_repl, s)
ResolveRefs(s) ==
    LET r1 == AmpSub(s)
    IN  IF r1.exc # "none" THEN r1 ELSE QuSub(r1.val)

\* ['relax', 'it', 'em', 'textsc', 'cite', 'citet']
StripNames ==
    << <<114, 101, 108, 97, 120>>, <<105, 116>>, <<101, 109>>,
       <<116, 101, 120, 116, 115, 99>>, <<99, 105, 116, 101>>,
       <<99, 105, 116, 101, 116>> >>

\* s.replace('\\' + cmd + ' ', '')
StripOne(s, cmd) == Replace(s, <<92>> \o cmd \o <<32>>, <<>>)

\* for cmd in [...]: s = s.replace('\\' + cmd + ' ', '')
StripFormatting(s) ==
    StripOne(StripOne(StripOne(StripOne(StripOne(StripOne(s,
        StripNames[1]), StripNames[2]), StripNames[3]), StripNames[4]),
        StripNames[5]), StripNames[6])

\* language_tags: <<tag, code>>
language_tags ==
    { <<<<108, 97, 116, 105, 110>>, <<108, 97, 116>>>>,                \* latin: lat
      <<<<122, 104>>, <<122, 104, 111>>>>,                              \* zh: zho
      <<<<104, 105, 110, 100, 105>>, <<104, 105, 110>>>>,               \* hindi: hin
      <<<<101, 110, 103>>, <<101, 110, 103>>>>,                         \* eng: eng
      <<<<118, 105, 101, 116>>, <<118, 105, 101>>>>,                    \* viet: vie
      <<<<116, 105, 98>>, <<98, 111, 100>>>>,                           \* tib: bod
      <<<<115, 107, 116>>, <<115, 97, 110>>>>,                          \* skt: san
      <<<<103, 117, 106, 97, 114, 97, 116, 105>>, <<103, 117, 106>>>>,  \* gujarati: guj
      <<<<112, 97, 99, 111, 104>>, <<112, 97, 99>>>>,                   \* pacoh: pac
      <<<<116, 104, 97, 105>>, <<116, 104, 97>>>>,                      \* thai: tha
      <<<<100, 117, 116, 99, 104>>, <<110, 108, 100>>>>,                \* dutch: nld
      <<<<98, 117, 114, 109>>, <<109, 121, 97>>>>,                      \* burm: mya
      <<<<100, 97, 110>>, <<100, 97, 110>>>>,                           \* dan: dan
      <<<<110, 111, 114, 119>>, <<110, 111, 114>>>>,                    \* norw: nor
      <<<<111, 108, 100, 107, 104, 109, 101, 114>>, <<113, 111, 107>>>>,\* oldkhmer: qok
      <<<<105, 116, 97, 108>>, <<105, 116, 97>>>>,                      \* ital: ita
      <<<<115, 97, 110, 116, 97, 108, 105>>, <<115, 97, 116>>>>,        \* santali: sat
      <<<<115, 112, 97, 110>>, <<115, 112, 97>>>>,                      \* span: spa
      <<<<103, 101, 114, 109>>, <<100, 101, 117>>>>,                    \* germ: deu
      <<<<102, 114>>, <<102, 114, 97>>>>,                               \* fr: fra
      <<<<114, 117, 115>>, <<114, 117, 115>>>> }                        \* rus: rus

\* the entries whose tag stands right after the backslash at i and is
\* followed by whitespace.  The alternation (tag1|tag2|...) backtracks until
\* \s+ matches, so the order of the keys does not matter; no key followed by
\* whitespace is a prefix of another key, so at most one entry qualifies.
TagsAt(s, i) ==
    { p \in language_tags :
        /\ HasAt(s, i + 1, p[1])
        /\ i + 1 + Len(p[1]) <= Len(s)
        /\ s[i + 1 + Len(p[1])] \in Whitespace }

\* language_tag_pattern = u"\\\\(?P<tag>%s)\s+" at i
TagMatchEnd(s, i) ==
    IF s[i] = 92 /\ TagsAt(s, i) # {}
    THEN LET p == CHOOSE p \in TagsAt(s, i) : TRUE
         IN  RunEnd(s, i + 1 + Len(p[1]), Whitespace)
    ELSE 0

\* mutant of TagRepl: the replacement has no trailing space
TagReplNoSpace(s, i, e) ==
    LET p == CHOOSE p \in TagsAt(s, i) : TRUE
    IN  <<91>> \o p[2] \o <<93>>

\* repl(m) = '[%s] ' % language_tags[m.group('tag')]
TagRepl(s, i, e) ==
    LET p == CHOOSE p \in TagsAt(s, i) : TRUE
    IN  <<91>> \o p[2] \o <<93, 32>>

\* language_tag_pattern.sub(repl, s)
recode_language_tags(s) ==
    LET ends == [i \in 1..Len(s) |-> TagMatchEnd(s, i)]
    IN  Sub(s, ends, [i \in 1..Len(s) |-> TagRepl(s, i, ends[i])])

\* s.decode('ascii') of a byte string
AsciiDecode(b) ==
    IF \E i \in 1..Len(b) : b[i] > 127
    THEN [err |-> TRUE, val |-> <<>>]
    ELSE [err |-> FALSE, val |-> b]

NoStages ==
    [cmd |-> <<>>, brace |-> <<>>, reorder |-> <<>>,
     ref |-> <<>>, strip |-> <<>>, tags |-> <<>>, ret |-> <<>>]

\* ulatex_postprocess(s) for a text s: the value of s after each statement
\* (brace is the text the reordering loop iterates over), the exception raised
\* ("none": ret is returned)
PostprocessText(s) ==
    LET c == StripCommands(s)
        b == RemoveBraces(c)
        r == Reorder(b)
        f == ResolveRefs(r)
        early == [NoStages EXCEPT !.cmd = c, !.brace = b, !.reorder = r]
    IN  IF f.exc # "none"
        THEN [exc |-> f.exc, st |-> early]
        ELSE LET t == StripFormatting(f.val)
                 g == recode_language_tags(t)
             IN  [exc |-> "none",
                  st |-> [early EXCEPT !.ref = f.val, !.strip = t, !.tags = g,
                                       !.ret = NFC(g)]]

\* ulatex_postprocess(s): a byte string is first decoded as ASCII
ulatex_postprocess(s, isbytes) ==
    IF isbytes
    THEN LET d == AsciiDecode(s)
         IN  IF d.err THEN [exc |-> "UnicodeDecodeError", st |-> NoStages]
             ELSE PostprocessText(d.val)
    ELSE PostprocessText(s)

(***************************************************************************)
(* Inputs.  An input text is the concatenation of a few tokens: plain      *)
(* text, a command applied to a brace group, a numeric character reference *)
(* in either format, a language tag.  The tokens an input was built from   *)
(* are kept in toks.                                                       *)
(***************************************************************************)

MaxToks == 3

MaxBraceLen == 5

MaxCmdToks == 2

MaxTagToks == 1

Tok(k, name, ws, arg) == [k |-> k, name |-> name, ws |-> ws, arg |-> arg]

Text(s) == Tok("text", <<>>, <<>>, s)

\* the characters a token stands for
Render(t) ==
    CASE t.k = "text" -> t.arg
      [] t.k = "cmd"  -> <<92>> \o t.name \o t.ws \o <<123>> \o t.arg \o <<125>>
      [] t.k = "amp"  -> t.ws \o <<38, 35>> \o t.arg \o <<59>>
      [] t.k = "qu"   -> <<63, 91, 92, 117>> \o t.ws \o t.arg \o <<93>>
      [] t.k = "tag"  -> <<92>> \o t.name \o t.ws

Flatten(ts) == Join([i \in 1..Len(ts) |-> Render(ts[i])])

SeqsUpTo(S, n) == UNION {[1..k -> S] : k \in 0..n}

\* x, e-acute, U+0080, U+1F600, '?', and the literal text ?[\u233]
LegacyVocab ==
    {Text(<<120>>), Text(<<233>>), Text(<<128>>), Text(<<128512>>),
     Text(<<63>>), Tok("qu", <<>>, <<>>, <<50, 51, 51>>)}

\* e, x, the acute and dot-below marks, e-acute
PreVocab ==
    {Text(<<101>>), Text(<<120>>), Text(<<769>>), Text(<<803>>), Text(<<233>>)}

\* e, x and the three combining marks
CombVocab ==
    {Text(<<101>>), Text(<<120>>), Text(<<769>>), Text(<<770>>), Text(<<803>>)}

\* the braces and x
BraceVocab == {Text(<<123>>), Text(<<125>>), Text(<<120>>)}

\* x, and \NAME{ARG} or \NAME {ARG} for the four names, ARG "x" or "x x"
CmdVocab ==
    {Text(<<120>>)} \cup
    {Tok("cmd", CommandNames[n], ws, arg) :
        n \in 1..4, ws \in {<<>>, <<32>>}, arg \in {<<120>>, <<120, 32, 120>>}}

\* x; &#233; with and without the backslash; ?[\u233] with and without a
\* space; the same format with DEC 1114111 (the last code point); &#1114112;
\* (one past the last code point)
RefVocab ==
    {Text(<<120>>),
     Tok("amp", <<>>, <<>>, <<50, 51, 51>>),
     Tok("amp", <<>>, <<92>>, <<50, 51, 51>>),
     Tok("qu", <<>>, <<>>, <<50, 51, 51>>),
     Tok("qu", <<>>, <<32>>, <<50, 51, 51>>),
     Tok("qu", <<>>, <<>>, <<49, 49, 49, 52, 49, 49, 49>>),
     Tok("amp", <<>>, <<>>, <<49, 49, 49, 52, 49, 49, 50>>)}

\* every tag of the table followed by a space
TagVocab == {Tok("tag", p[1], <<32>>, <<>>) : p \in language_tags}

\* x; \latin followed by a space, by two spaces, by nothing; \zh followed by
\* a tab; \Latin and \latinx followed by a space
TagSeqVocab ==
    {Text(<<120>>),
     Tok("tag", <<108, 97, 116, 105, 110>>, <<32>>, <<>>),
     Tok("tag", <<108, 97, 116, 105, 110>>, <<32, 32>>, <<>>),
     Tok("tag", <<108, 97, 116, 105, 110>>, <<>>, <<>>),
     Tok("tag", <<122, 104>>, <<9>>, <<>>),
     Tok("tag", <<76, 97, 116, 105, 110>>, <<32>>, <<>>),
     Tok("tag", <<108, 97, 116, 105, 110, 120>>, <<32>>, <<>>)}

\* a byte string: x, the braces, and the two UTF-8 bytes of e-acute
BytesVocab ==
    {Text(<<120>>), Text(<<123>>), Text(<<125>>), Text(<<195, 169>>)}

(***************************************************************************)
(* The program: one call of a function of the module on an input.          *)
(***************************************************************************)

NoPre == [enc |-> "", exc |-> "", val |-> <<>>]

NoPost == [exc |-> "", st |-> NoStages]

\* isinstance(input, str): the input is a byte string, not a text
IsBytes == fam = "bytes"

InitWith(f, V, n) ==
    /\ pc = "start"
    /\ fam = f
    /\ toks \in SeqsUpTo(V, n)
    /\ input = Flatten(toks)
    /\ escaped = <<>>
    /\ unescaped = <<>>
    /\ pre = NoPre
    /\ post = NoPost

InitLegacy == InitWith("legacy", LegacyVocab, MaxToks)

InitPre == InitWith("pre", PreVocab, MaxToks)

InitPost ==
    \/ InitWith("comb", CombVocab, MaxToks)
    \/ InitWith("brace", BraceVocab, MaxBraceLen)
    \/ InitWith("cmd", CmdVocab, MaxCmdToks)
    \/ InitWith("ref", RefVocab, MaxToks)
    \/ InitWith("tag", TagVocab, MaxTagToks)
    \/ InitWith("tag", TagSeqVocab, MaxToks)
    \/ InitWith("bytes", BytesVocab, MaxToks)

Init == InitLegacy \/ InitPre \/ InitPost

\* u_escape(input)
Escape ==
    /\ pc = "start"
    /\ escaped' = u_escape(input)
    /\ pc' = "escaped"
    /\ UNCHANGED <<fam, toks, input, unescaped, pre, post>>

\* u_unescape(u_escape(input))
Unescape ==
    /\ pc = "escaped"
    /\ unescaped' = u_unescape(escaped)
    /\ pc' = "unescaped"
    /\ UNCHANGED <<fam, toks, input, escaped, pre, post>>

\* the encodings a caller's byte string of the text may be in
Encodings(s) ==
    {"utf8"} \cup (IF \A i \in 1..Len(s) : s[i] <= 255 THEN {"latin1"} ELSE {})

Encode(s, enc) == IF enc = "utf8" THEN Utf8Encode(s) ELSE Latin1Encode(s)

\* ulatex_preprocess(input.encode(enc)); a byte string is passed as it is
Preprocess ==
    /\ pc = "start"
    /\ \E enc \in (IF IsBytes THEN {"bytes"} ELSE Encodings(input)) :
           LET r == ulatex_preprocess(
                        IF IsBytes THEN input ELSE Encode(input, enc))
           IN  pre' = [enc |-> enc, exc |-> r.exc, val |-> r.val]
    /\ pc' = "preprocessed"
    /\ UNCHANGED <<fam, toks, input, escaped, unescaped, post>>

\* ulatex_postprocess(input)
Postprocess ==
    /\ pc = "start"
    /\ post' = ulatex_postprocess(input, IsBytes)
    /\ pc' = "postprocessed"
    /\ UNCHANGED <<fam, toks, input, escaped, unescaped, pre>>

NextLegacy == Escape \/ Unescape

Next == Escape \/ Unescape \/ Preprocess \/ Postprocess

Spec == Init /\ [][Next]_vars

SpecLegacy == InitLegacy /\ [][NextLegacy]_vars

SpecPre == InitPre /\ [][Preprocess]_vars

SpecPost == InitPost /\ [][Postprocess]_vars

(***************************************************************************)
(* Claims.                                                                 *)
(***************************************************************************)

Escaped == pc \in {"escaped", "unescaped"}

Returned == pc = "postprocessed" /\ post.exc = "none"

\* the escape token of the non-ASCII code points of LegacyVocab, written out
C8_Token(c) ==
    CASE c = 233    -> <<63, 91, 92, 117, 50, 51, 51, 93>>
      [] c = 128    -> <<63, 91, 92, 117, 49, 50, 56, 93>>
      [] c = 128512 -> <<63, 91, 92, 117, 49, 50, 56, 53, 49, 50, 93>>
      [] OTHER      -> <<c>>

C8_Expected(t) ==
    IF t.k = "text" THEN Join([i \in 1..Len(t.arg) |-> C8_Token(t.arg[i])])
    ELSE Render(t)

\* C8: the output of u_escape holds only code points <= 127: each code
\* point <= 127 of the input stands unchanged in its place and each code
\* point c > 127 is replaced by ?[\u<decimal c>].
C8_EscapeIsAscii ==
    Escaped =>
        /\ \A i \in 1..Len(escaped) : escaped[i] <= 127
        /\ escaped = Join([i \in 1..Len(toks) |-> C8_Expected(toks[i])])

C8_Witness ==
    /\ pc = "escaped"
    /\ \E i, j \in 1..Len(input) : input[i] > 127 /\ input[j] <= 127

\* C1 (as claimed): u_unescape(u_escape(s)) = s for every text s.
C1_RoundTrip == pc = "unescaped" => unescaped = input

\* the nearest character before position i that is not a combining mark
\* (0: there is none)
BaseBefore(s, i) ==
    IF \E j \in 1..(i - 1) : ~is_combining(s[j])
    THEN s[CHOOSE j \in 1..(i - 1) :
               ~is_combining(s[j]) /\ \A k \in (j + 1)..(i - 1) : is_combining(s[k])]
    ELSE 0

PreDone == pc = "preprocessed" /\ pre.enc = "utf8"

MarkRun(s, i, j) ==
    /\ i < j
    /\ j < Len(s)
    /\ \A k \in i..j : is_combining(s[k])
    /\ i = 1 \/ ~is_combining(s[i - 1])
    /\ ~is_combining(s[j + 1])

\* C3 (amended): when a run of two or more combining marks m1 .. mk precedes
\* a base character b, the reordering loop emits b followed by the marks in
\* the REVERSE of the order in which they appeared: b mk .. m1.
C3_MarksReversed ==
    Returned =>
        LET s == post.st.brace
            n == post.st.reorder
        IN  \A i, j \in 1..Len(s) :
                MarkRun(s, i, j) =>
                    /\ Len(n) >= j + 1
                    /\ n[i] = s[j + 1]
                    /\ \A k \in 0..(j - i) : n[i + 1 + k] = s[j - k]

C3_Witness == Returned /\ post.st.brace = <<769, 803, 101>>

\* C3 (as claimed): the marks follow b in the order in which they appeared.
C3_MarksInOrder ==
    Returned =>
        LET s == post.st.brace
            n == post.st.reorder
        IN  \A i, j \in 1..Len(s) :
                MarkRun(s, i, j) =>
                    /\ Len(n) >= j + 1
                    /\ n[i] = s[j + 1]
                    /\ \A k \in 0..(j - i) : n[i + 1 + k] = s[i + k]

\* C4 (as claimed): for a text input no stage of ulatex_postprocess raises.
C4_NeverRaises == pc = "postprocessed" /\ ~IsBytes => post.exc = "none"

AllToks(P(_)) == \A i \in 1..Len(toks) : P(toks[i])

SomeTok(P(_)) == \E i \in 1..Len(toks) : P(toks[i])

Expect(F(_)) == Join([i \in 1..Len(toks) |-> F(toks[i])])

C5_Spaced(t) == IF t.k = "cmd" /\ t.ws = <<32>> THEN t.arg ELSE Render(t)

C5_Any(t) == IF t.k = "cmd" THEN t.arg ELSE Render(t)

\* C5 (amended): for every NAME in {url, emph, textit, texttt} and every
\* non-empty ARG without a closing brace, each occurrence of backslash NAME,
\* exactly one space and the brace group {ARG} is replaced by ARG alone; with
\* no space between NAME and the brace the command pass changes nothing.
C5_SpacedCommandStripped ==
    Returned /\ fam = "cmd" => post.st.cmd = Expect(C5_Spaced)

C5_Witness ==
    /\ Returned
    /\ SomeTok(LAMBDA t : t.k = "cmd" /\ t.ws = <<32>>)
    /\ SomeTok(LAMBDA t : t.k = "cmd" /\ t.ws = <<>>)

\* C5 (as claimed): each occurrence of NAME applied to {ARG} is replaced by
\* ARG alone.
C5_CommandStripped ==
    Returned /\ fam = "cmd" => post.st.cmd = Expect(C5_Any)

\* the code point a DEC of RefVocab denotes, written out
C6_Value(dec) ==
    CASE dec = <<50, 51, 51>> -> 233
      [] dec = <<49, 49, 49, 52, 49, 49, 49>> -> 1114111
      [] dec = <<49, 49, 49, 52, 49, 49, 50>> -> 1114112

C6_IsRef(t) == t.k \in {"amp", "qu"}

C6_Valid(t) == C6_IsRef(t) => C6_Value(t.arg) <= 1114111

C6_Expected(t) == IF C6_IsRef(t) THEN <<C6_Value(t.arg)>> ELSE Render(t)

\* C6: every occurrence of &#DEC; (with or without a leading backslash) or
\* of ?[\uDEC], DEC denoting a valid code point, is replaced by the single
\* character with code point DEC, the same for both formats (233: e-acute).
C6_RefsResolved ==
    pc = "postprocessed" /\ fam = "ref" /\ AllToks(C6_Valid) =>
        /\ post.exc = "none"
        /\ post.st.ref = Expect(C6_Expected)
        /\ post.st.ret = Expect(C6_Expected)

C6_Witness ==
    /\ Returned
    /\ SomeTok(LAMBDA t : t.k = "amp" /\ t.ws = <<92>>)
    /\ SomeTok(LAMBDA t : t.k = "qu")
    /\ post.st.ref = <<233, 233>>

C7_IsKey(name) == \E p \in language_tags : p[1] = name

C7_Code(name) ==
    IF name = <<108, 97, 116, 105, 110>> THEN <<108, 97, 116>>
    ELSE (CHOOSE p \in language_tags : p[1] = name)[2]

C7_Expected(t) ==
    IF t.k = "tag" /\ C7_IsKey(t.name) /\ t.ws # <<>>
    THEN <<91>> \o C7_Code(t.name) \o <<93, 32>>
    ELSE Render(t)

\* C7: a backslash, exactly a tag T of the table and one or more whitespace
\* characters are rewritten to [code(T)] and a single space (\latin: [lat]);
\* a command name that is not exactly a key of the table is left unchanged.
C7_TagsRewritten ==
    Returned /\ fam = "tag" =>
        /\ post.st.tags = Expect(C7_Expected)
        /\ post.st.ret = Expect(C7_Expected)

C7_Witness ==
    /\ Returned
    /\ SomeTok(LAMBDA t : t.k = "tag" /\ C7_IsKey(t.name) /\ t.ws = <<32, 32>>)
    /\ SomeTok(LAMBDA t : t.k = "tag" /\ ~C7_IsKey(t.name))
    /\ SomeTok(LAMBDA t : t.k = "text")

\* the nesting depth of s after its first i characters
NestDepth(s, i) ==
    Cardinality({k \in 1..i : s[k] = 123}) - Cardinality({k \in 1..i : s[k] = 125})

\* the braces of s are balanced and nested at most two levels deep
Balanced2(s) ==
    /\ \A i \in 1..Len(s) : NestDepth(s, i) \in 0..2
    /\ NestDepth(s, Len(s)) = 0

NoBraces(s) == \A i \in 1..Len(s) : s[i] \notin {123, 125}

\* C9 (as claimed): for an input without commands whose braces are balanced
\* and nested at most two levels deep, the output holds no brace.
C9_NoBraceLeft ==
    Returned /\ fam = "brace" /\ Balanced2(input) =>
        NoBraces(post.st.brace) /\ NoBraces(post.st.ret)

Count(s, c) == Cardinality({i \in 1..Len(s) : s[i] = c})

\* C10 (as claimed): the text the reordering loop produces is a permutation
\* of the text it iterates over.
C10_Permutation ==
    Returned =>
        \A i \in 1..Len(post.st.brace) :
            Count(post.st.reorder, post.st.brace[i])
                = Count(post.st.brace, post.st.brace[i])

=============================================================================
